---- MODULE Spec2Model ----
(***************************************************************************)
(* A model of bayes_stat.py (Python 2): the discrete-distribution routines *)
(* (create_disc_distribution, cal_disc_percentile, cal_disc_posterior,     *)
(* cal_disc_credible_interval) and the Beta-Binomial routines              *)
(* (create_beta_distribution_for_binomial, cal_beta_binomial_posterior,    *)
(* cal_mean_beta_binomial_posterior).                                      *)
(*                                                                         *)
(* Python numbers are modelled as they are computed: an int is an integer, *)
(* a float is an IEEE-754 binary64 value m * 2^e with a 53-bit mantissa,   *)
(* and every float operation rounds to nearest, ties to even.  Mantissas   *)
(* do not fit TLC's integers, so they are kept as little-endian sequences  *)
(* of 14-bit limbs.  Only non-negative numbers occur, and the inputs are   *)
(* far from the exponent limits, so signs, overflow and underflow are not  *)
(* modelled.                                                               *)
(***************************************************************************)
EXTENDS Integers, Sequences, FiniteSets, TLC

(***************************************************************************)
(* Natural numbers of arbitrary size: little-endian limb sequences.        *)
(***************************************************************************)
Base == 2^14

RECURSIVE BNat(_)
BNat(n) == IF n = 0 THEN <<>> ELSE <<n % Base>> \o BNat(n \div Base)

RECURSIVE BTrim(_)
BTrim(a) ==
    IF a = <<>> \/ a[Len(a)] # 0 THEN a ELSE BTrim(SubSeq(a, 1, Len(a) - 1))

Limb(a, i) == IF i <= Len(a) THEN a[i] ELSE 0

Zeros(n) == [i \in 1..n |-> 0]

RECURSIVE BAddC(_, _, _, _)
BAddC(a, b, i, c) ==
    IF i > Len(a) /\ i > Len(b)
    THEN (IF c = 0 THEN <<>> ELSE <<c>>)
    ELSE LET s == Limb(a, i) + Limb(b, i) + c
         IN  <<s % Base>> \o BAddC(a, b, i + 1, s \div Base)

BAdd(a, b) == BAddC(a, b, 1, 0)

\* a - b for a >= b
RECURSIVE BSubC(_, _, _, _)
BSubC(a, b, i, br) ==
    IF i > Len(a)
    THEN <<>>
    ELSE LET d == a[i] - Limb(b, i) - br
         IN  IF d < 0 THEN <<d + Base>> \o BSubC(a, b, i + 1, 1)
                      ELSE <<d>> \o BSubC(a, b, i + 1, 0)

BSub(a, b) == BTrim(BSubC(a, b, 1, 0))

RECURSIVE BCmpAt(_, _, _)
BCmpAt(a, b, i) ==
    IF i = 0 THEN 0
    ELSE IF a[i] < b[i] THEN -1
    ELSE IF a[i] > b[i] THEN 1
    ELSE BCmpAt(a, b, i - 1)

\* -1, 0, 1 as a < b, a = b, a > b (both trimmed)
BCmp(a, b) ==
    IF Len(a) < Len(b) THEN -1
    ELSE IF Len(a) > Len(b) THEN 1
    ELSE BCmpAt(a, b, Len(a))

RECURSIVE BMulSmallC(_, _, _, _)
BMulSmallC(a, k, i, c) ==
    IF i > Len(a)
    THEN (IF c = 0 THEN <<>> ELSE <<c>>)
    ELSE LET p == a[i] * k + c
         IN  <<p % Base>> \o BMulSmallC(a, k, i + 1, p \div Base)

\* a * k for 0 <= k < Base
BMulSmall(a, k) == IF k = 0 THEN <<>> ELSE BMulSmallC(a, k, 1, 0)

RECURSIVE BMulAt(_, _, _)
BMulAt(a, b, i) ==
    IF i > Len(b)
    THEN <<>>
    ELSE BAdd(Zeros(i - 1) \o BMulSmall(a, b[i]), BMulAt(a, b, i + 1))

BMul(a, b) == BTrim(BMulAt(a, b, 1))

\* a * 2^k
BShl(a, k) ==
    IF a = <<>> THEN <<>>
    ELSE Zeros(k \div 14) \o BMulSmall(a, 2^(k % 14))

\* floor(a / 2^k)
BShr(a, k) ==
    LET d == k \div 14
        r == k % 14
        n == Len(a) - d
    IN  IF n <= 0 THEN <<>>
        ELSE BTrim([i \in 1..n |->
                       (a[i + d] \div 2^r)
                       + (Limb(a, i + d + 1) % 2^r) * 2^(14 - r)])

RECURSIVE BitLenSmall(_)
BitLenSmall(n) == IF n = 0 THEN 0 ELSE 1 + BitLenSmall(n \div 2)

BBitLen(a) ==
    IF a = <<>> THEN 0
    ELSE 14 * (Len(a) - 1) + BitLenSmall(a[Len(a)])

BOdd(a) == a # <<>> /\ a[1] % 2 = 1

\* s = <<q, r>> with r < d; the result is <<q * 2^k + floor(r * 2^k / d),
\* whether a remainder is left>>, by restoring division: one quotient bit
\* per step
RECURSIVE BDivBits(_, _, _)
BDivBits(s, d, k) ==
    IF k = 0
    THEN <<s[1], s[2] # <<>> >>
    ELSE LET r2 == BShl(s[2], 1)
             q2 == BShl(s[1], 1)
         IN  IF BCmp(r2, d) >= 0
             THEN BDivBits(<<BAdd(q2, <<1>>), BSub(r2, d)>>, d, k - 1)
             ELSE BDivBits(<<q2, r2>>, d, k - 1)

(***************************************************************************)
(* Python 2 numbers.  A number is [k, m, e]: k = "int" is the integer m    *)
(* (e = 0); k = "float" is the binary64 value m * 2^e, with m of exactly   *)
(* MantDig bits, or m = <<>> and e = 0 for 0.0.                            *)
(***************************************************************************)
MantDig == 53

PyInt(n) == [k |-> "int", m |-> BNat(n), e |-> 0]

FZero == [k |-> "float", m |-> <<>>, e |-> 0]

IsZero(a) == a.m = <<>>

\* the float nearest to n * 2^e (to n * 2^e plus less than one unit of n when
\* sticky), ties to even
FRound(n, e, sticky) ==
    IF n = <<>> THEN FZero
    ELSE LET L == BBitLen(n)
         IN  IF L <= MantDig
             THEN [k |-> "float", m |-> BShl(n, MantDig - L),
                   e |-> e - (MantDig - L)]
             ELSE LET s    == L - MantDig
                      q    == BShr(n, s)
                      c    == BCmp(BSub(n, BShl(q, s)), BShl(<<1>>, s - 1))
                      up   == c > 0 \/ (c = 0 /\ (sticky \/ BOdd(q)))
                      q2   == IF up THEN BAdd(q, <<1>>) ELSE q
                  IN  IF BBitLen(q2) > MantDig
                      THEN [k |-> "float", m |-> BShr(q2, 1), e |-> e + s + 1]
                      ELSE [k |-> "float", m |-> q2, e |-> e + s]

\* float(a)
ToFloat(a) == IF a.k = "float" THEN a ELSE FRound(a.m, 0, FALSE)

Min(x, y) == IF x <= y THEN x ELSE y

FAdd(a, b) ==
    IF IsZero(a) THEN b
    ELSE IF IsZero(b) THEN a
    ELSE LET e == Min(a.e, b.e)
         IN  FRound(BAdd(BShl(a.m, a.e - e), BShl(b.m, b.e - e)), e, FALSE)

FMul(a, b) ==
    IF IsZero(a) \/ IsZero(b) THEN FZero
    ELSE FRound(BMul(a.m, b.m), a.e + b.e, FALSE)

\* a / b for b # 0: the quotient of the mantissas to MantDig + 2 bits and a
\* sticky bit, rounded once
FDiv(a, b) ==
    IF IsZero(a) THEN FZero
    ELSE LET ge == BCmp(a.m, b.m) >= 0
             qs == BDivBits(IF ge THEN <<<<1>>, BSub(a.m, b.m)>>
                                  ELSE <<<<>>, a.m>>, b.m, MantDig + 2)
         IN  FRound(qs[1], a.e - b.e - (MantDig + 2), qs[2])

\* -1, 0, 1 as a < b, a = b, a > b, for floats
FCmp(a, b) ==
    IF IsZero(a) THEN (IF IsZero(b) THEN 0 ELSE -1)
    ELSE IF IsZero(b) THEN 1
    ELSE IF a.e < b.e THEN -1
    ELSE IF a.e > b.e THEN 1
    ELSE BCmp(a.m, b.m)

\* the value of an int that fits a machine word
RECURSIVE BVal(_)
BVal(a) == IF a = <<>> THEN 0 ELSE a[1] + Base * BVal(Tail(a))

BothInt(a, b) == a.k = "int" /\ b.k = "int"

\* a + b
PyAdd(a, b) ==
    IF BothInt(a, b) THEN [k |-> "int", m |-> BTrim(BAdd(a.m, b.m)), e |-> 0]
    ELSE FAdd(ToFloat(a), ToFloat(b))

\* a * b
PyMul(a, b) ==
    IF BothInt(a, b) THEN [k |-> "int", m |-> BMul(a.m, b.m), e |-> 0]
    ELSE FMul(ToFloat(a), ToFloat(b))

\* a / b for b # 0: Python 2's classic division floors two ints
PyDiv(a, b) ==
    IF BothInt(a, b) THEN PyInt(BVal(a.m) \div BVal(b.m))
    ELSE FDiv(ToFloat(a), ToFloat(b))

\* -1, 0, 1 as a < b, a = b, a > b
PyCmp(a, b) ==
    IF BothInt(a, b) THEN BCmp(a.m, b.m) ELSE FCmp(ToFloat(a), ToFloat(b))

\* the float literal n/d written in decimal, e.g. 0.3 as PyLit(3, 10): the
\* float nearest to the rational
PyLit(n, d) == FDiv(ToFloat(PyInt(n)), ToFloat(PyInt(d)))

\* a - b for floats a >= b
FSub(a, b) ==
    IF IsZero(b) THEN a
    ELSE LET e == Min(a.e, b.e)
         IN  FRound(BSub(BShl(a.m, a.e - e), BShl(b.m, b.e - e)), e, FALSE)

\* a - b for a >= b
PySub(a, b) ==
    IF BothInt(a, b) THEN [k |-> "int", m |-> BSub(a.m, b.m), e |-> 0]
    ELSE FSub(ToFloat(a), ToFloat(b))

(***************************************************************************)
(* State.                                                                  *)
(*                                                                         *)
(* Beta-Binomial, one caller: heap holds the dictionaries that exist,      *)
(* beta_dist and post_beta are the caller's two references into it (0:     *)
(* unbound), as in the docstring of cal_beta_binomial_posterior:           *)
(*     beta_dist = create_beta_distribution_for_binomial(1, 1)             *)
(*     post_beta = cal_beta_binomial_posterior(beta_dist, data)            *)
(* bcall records the last call; bhist is a history variable: the           *)
(* arguments that created beta_dist's dictionary and the outcomes fed to   *)
(* it since.                                                               *)
(***************************************************************************)
VARIABLES heap, beta_dist, post_beta, bcall, bhist

betaVars == <<heap, beta_dist, post_beta, bcall, bhist>>

(***************************************************************************)
(* Beta-Binomial, two callers sharing one dictionary: shared is the        *)
(* dictionary, and per thread t, batch[t] is its data, pc[t] its position  *)
(* in cal_beta_binomial_posterior, idx[t] the loop index and reg[t] the    *)
(* value it has read for the pending +=.  overlapped is a history          *)
(* variable: whether a call ever started while the other was running.      *)
(***************************************************************************)
VARIABLES shared, shared0, batch, pc, idx, reg, overlapped

concVars == <<shared, shared0, batch, pc, idx, reg, overlapped>>

(***************************************************************************)
(* Discrete updating.  A caller holds a prior and the likelihood vectors   *)
(* lik1, lik2 of two data, and calls cal_disc_posterior five times: the    *)
(* prior updated with lik1 (res.s1) and that with lik2 (res.s12), the      *)
(* prior updated with lik2 (res.s2) and that with lik1 (res.s21), and the  *)
(* prior updated with the elementwise product of lik1 and lik2             *)
(* (res.joint).  stage is the call that comes next.                        *)
(***************************************************************************)
VARIABLES prior, lik1, lik2, res, stage

postVars == <<prior, lik1, lik2, res, stage>>

(***************************************************************************)
(* Discrete distributions.  dist is the caller's distribution, a           *)
(* dictionary from values to probabilities built as                        *)
(* cal_median_disc_posterior builds one, dict(zip(hypo_val, posterior));   *)
(* dcall records the last call of create_disc_distribution,                *)
(* cal_disc_percentile or cal_disc_credible_interval.                      *)
(***************************************************************************)
VARIABLES dist, dcall, significant_level

discVars == <<dist, dcall, significant_level>>

(***************************************************************************)
(* create_disc_distribution is a function of its arguments: cargs are the  *)
(* arguments of a call and cres what the call returned or raised.          *)
(***************************************************************************)
VARIABLES cargs, cres

createVars == <<cargs, cres>>

vars == <<betaVars, concVars, postVars, discVars, createVars>>

notBeta == <<concVars, postVars, discVars, createVars>>
notConc == <<betaVars, postVars, discVars, createVars>>
notPost == <<betaVars, concVars, discVars, createVars>>
notDisc == <<betaVars, concVars, postVars, createVars>>
notCreate == <<betaVars, concVars, postVars, discVars>>

(***************************************************************************)
(* Bounds of the model.                                                    *)
(***************************************************************************)
\* the most hypotheses (the longest prior or likelihood vector)
MaxHypo == 2
\* the longest list of values or probabilities of a distribution
MaxLen == 3
\* create's arguments range over -1..MaxParam
MaxParam == 1
\* the longest data list of one sequential update
MaxData == 3
\* the most outcomes fed to one dictionary in the sequential model
MaxObs == 4
\* the longest data list of one concurrent update
MaxBatch == 2

Params == -1..MaxParam

\* outcomes: 1 success, 0 failure, 2 neither
Outcomes == {0, 1, 2}

RECURSIVE SeqsUpTo(_, _)
SeqsUpTo(S, n) ==
    IF n = 0 THEN {<<>>}
    ELSE LET shorter == SeqsUpTo(S, n - 1)
         IN  shorter \cup {Append(q, x) : q \in shorter, x \in S}

RECURSIVE Count(_, _)
Count(q, x) ==
    IF q = <<>> THEN 0
    ELSE (IF Head(q) = x THEN 1 ELSE 0) + Count(Tail(q), x)

Abs(n) == IF n < 0 THEN -n ELSE n

(***************************************************************************)
(* create_beta_distribution_for_binomial(alpha, beta)                      *)
(***************************************************************************)
create_beta_distribution_for_binomial(alpha, beta) ==
    [alpha |-> alpha, beta |-> beta]

(***************************************************************************)
(* cal_beta_binomial_posterior(beta_dist, data): the loop body picks the   *)
(* key by i == 1 and adds 1 under it, in the dictionary it was given.      *)
(***************************************************************************)
AlwaysAlpha(i) == "alpha"

KeyOf(i) == IF i = 1 THEN "alpha" ELSE "beta"

Bump(d, key) == [d EXCEPT ![key] = @ + 1]

RECURSIVE BetaLoop(_, _)
BetaLoop(d, data) ==
    IF data = <<>> THEN d
    ELSE BetaLoop(Bump(d, KeyOf(Head(data))), Tail(data))

cal_beta_binomial_posterior(d, data) == BetaLoop(d, data)

(***************************************************************************)
(* cal_mean_beta_binomial_posterior(beta_dist):                            *)
(* float(alpha) / (alpha + beta).  The quotient's sign is kept apart from  *)
(* its magnitude.                                                          *)
(***************************************************************************)
cal_mean_beta_binomial_posterior(d) ==
    IF d.alpha + d.beta = 0
    THEN [kind |-> "ZeroDivisionError", neg |-> FALSE, val |-> FZero]
    ELSE [kind |-> "ok",
          neg  |-> (d.alpha < 0) # (d.alpha + d.beta < 0),
          val  |-> PyDiv(ToFloat(PyInt(Abs(d.alpha))),
                         PyInt(Abs(d.alpha + d.beta)))]

NoMean == [kind |-> "none", neg |-> FALSE, val |-> FZero]
NoDict == [alpha |-> 0, beta |-> 0]
NoCall ==
    [op |-> "none", pre |-> NoDict, bad |-> FALSE, raised |-> "none",
     mean |-> NoMean]
NoHist == [a0 |-> 0, b0 |-> 0, ones |-> 0, zeros |-> 0, others |-> 0]

BetaInit ==
    /\ heap = <<>>
    /\ beta_dist = 0
    /\ post_beta = 0
    /\ bcall = NoCall
    /\ bhist = NoHist

\* beta_dist = create_beta_distribution_for_binomial(a, b): a new
\* dictionary; the caller drops its references to the old one
BetaCreate ==
    \E a \in Params, b \in Params :
        /\ heap' = <<create_beta_distribution_for_binomial(a, b)>>
        /\ beta_dist' = 1
        /\ post_beta' = 0
        /\ bcall' = [NoCall EXCEPT !.op = "create"]
        /\ bhist' = [NoHist EXCEPT !.a0 = a, !.b0 = b]
        /\ UNCHANGED notBeta

\* post_beta = cal_beta_binomial_posterior(beta_dist, data): the dictionary
\* beta_dist refers to is changed in place and returned
BetaUpdate ==
    \E data \in SeqsUpTo(Outcomes, MaxData) :
        /\ beta_dist # 0
        /\ bhist.ones + bhist.zeros + bhist.others + Len(data) <= MaxObs
        /\ heap' = [heap EXCEPT ![beta_dist] =
                        cal_beta_binomial_posterior(heap[beta_dist], data)]
        /\ post_beta' = beta_dist
        /\ bcall' = [op |-> "update", pre |-> heap[beta_dist],
                     bad |-> Count(data, 2) > 0, raised |-> "none",
                     mean |-> NoMean]
        /\ bhist' = [bhist EXCEPT !.ones = @ + Count(data, 1),
                                  !.zeros = @ + Count(data, 0),
                                  !.others = @ + Count(data, 2)]
        /\ UNCHANGED <<beta_dist, notBeta>>

\* cal_mean_beta_binomial_posterior(beta_dist)
BetaMean ==
    /\ beta_dist # 0
    /\ bcall' = [op |-> "mean", pre |-> heap[beta_dist], bad |-> FALSE,
                 raised |-> "none",
                 mean |-> cal_mean_beta_binomial_posterior(heap[beta_dist])]
    /\ UNCHANGED <<heap, beta_dist, post_beta, bhist, notBeta>>

(***************************************************************************)
(* Two threads in cal_beta_binomial_posterior on one dictionary.  The      *)
(* interpreter may switch threads between any two bytecodes, so            *)
(* beta_dist[key] += 1 is a read of the entry (BINARY_SUBSCR) and, later,  *)
(* a write of the value read plus one (STORE_SUBSCR).                      *)
(***************************************************************************)
Threads == {1, 2}

Other(t) == 3 - t

Running(t) == pc[t] \in {"for", "read", "write"}

ConcInit ==
    /\ \E a \in 1..MaxParam, b \in 1..MaxParam :
           /\ shared = create_beta_distribution_for_binomial(a, b)
           /\ shared0 = shared
    /\ batch = [t \in Threads |-> <<>>]
    /\ pc = [t \in Threads |-> "idle"]
    /\ idx = [t \in Threads |-> 0]
    /\ reg = [t \in Threads |-> 0]
    /\ overlapped = FALSE

\* thread t calls cal_beta_binomial_posterior(shared, data)
ConcCall(t) ==
    \E data \in SeqsUpTo({0, 1}, MaxBatch) :
        /\ pc[t] = "idle"
        /\ batch' = [batch EXCEPT ![t] = data]
        /\ pc' = [pc EXCEPT ![t] = "for"]
        /\ overlapped' = (overlapped \/ Running(Other(t)))
        /\ UNCHANGED <<shared, shared0, idx, reg, notConc>>

ConcForSkipLast(t) ==
    /\ pc[t] = "for"
    /\ IF idx[t] < Len(batch[t]) - 1
       THEN /\ idx' = [idx EXCEPT ![t] = @ + 1]
            /\ pc' = [pc EXCEPT ![t] = "read"]
       ELSE /\ pc' = [pc EXCEPT ![t] = "done"]
            /\ UNCHANGED idx
    /\ UNCHANGED <<shared, shared0, batch, reg, overlapped, notConc>>

\* for i in data: the next item, or the return
ConcFor(t) ==
    /\ pc[t] = "for"
    /\ IF idx[t] < Len(batch[t])
       THEN /\ idx' = [idx EXCEPT ![t] = @ + 1]
            /\ pc' = [pc EXCEPT ![t] = "read"]
       ELSE /\ pc' = [pc EXCEPT ![t] = "done"]
            /\ UNCHANGED idx
    /\ UNCHANGED <<shared, shared0, batch, reg, overlapped, notConc>>

\* the read of beta_dist[key]
ConcRead(t) ==
    /\ pc[t] = "read"
    /\ reg' = [reg EXCEPT ![t] = shared[KeyOf(batch[t][idx[t]])]]
    /\ pc' = [pc EXCEPT ![t] = "write"]
    /\ UNCHANGED <<shared, shared0, batch, idx, overlapped, notConc>>

\* the write of beta_dist[key]
ConcWrite(t) ==
    /\ pc[t] = "write"
    /\ shared' = [shared EXCEPT ![KeyOf(batch[t][idx[t]])] = reg[t] + 1]
    /\ pc' = [pc EXCEPT ![t] = "for"]
    /\ UNCHANGED <<shared0, batch, idx, reg, overlapped, notConc>>

(***************************************************************************)
(* cal_disc_posterior(prior, likelihood)                                   *)
(***************************************************************************)
\* sum(q): 0 + q[1] + ... + q[n], from the left
RECURSIVE SumFrom(_, _)
SumFrom(acc, q) ==
    IF q = <<>> THEN acc ELSE SumFrom(PyAdd(acc, Head(q)), Tail(q))

PySum(q) == SumFrom(PyInt(0), q)

\* posterior.append(prior[i] * likelihood[i]) for i in xrange(num)
Products(p, l) == [i \in 1..Len(p) |-> PyMul(p[i], l[i])]

\* [p/sp for p in posterior]: the first division raises when sp is zero;
\* divided tells whether a division was evaluated
Normalized(posterior, sp) ==
    IF posterior = <<>>
    THEN [kind |-> "ok", val |-> <<>>, divided |-> FALSE]
    ELSE IF IsZero(sp)
    THEN [kind |-> "ZeroDivisionError", val |-> <<>>, divided |-> TRUE]
    ELSE [kind |-> "ok",
          val  |-> [i \in 1..Len(posterior) |-> PyDiv(posterior[i], sp)],
          divided |-> TRUE]

posterior_by_prior_sum(p, l) ==
    IF Len(p) # Len(l)
    THEN [kind |-> "AssertionError", val |-> <<>>, divided |-> FALSE]
    ELSE Normalized(Products(p, l), PySum(p))

cal_disc_posterior(p, l) ==
    IF Len(p) # Len(l)
    THEN [kind |-> "AssertionError", val |-> <<>>, divided |-> FALSE]
    ELSE Normalized(Products(p, l), PySum(Products(p, l)))

(***************************************************************************)
(* The caller's inputs: a prior that is a probability distribution, and    *)
(* two likelihood vectors of one length with entries from LikValues.       *)
(***************************************************************************)
PriorTable ==
    { <<>>,
      <<PyLit(1, 1)>>,
      <<PyLit(5, 10), PyLit(5, 10)>>,
      <<PyLit(3, 10), PyLit(7, 10)>>,
      <<PyInt(1), PyInt(0)>>,
      <<PyLit(2, 10), PyLit(5, 10), PyLit(3, 10)>>,
      <<PyInt(0), PyInt(1), PyInt(0)>> }

Priors == {p \in PriorTable : Len(p) <= MaxHypo}

LikValues == <<PyLit(1, 10), PyLit(3, 10), PyInt(0)>>

\* likelihood vectors are chosen by the indices of their entries
LikChoices(n) == [1..n -> 1..Len(LikValues)]

LikVector(c) == [i \in DOMAIN c |-> LikValues[c[i]]]

RECURSIVE Rank(_, _)
Rank(c, i) ==
    IF i > Len(c) THEN 0 ELSE c[i] + (Len(LikValues) + 1) * Rank(c, i + 1)

\* the caller's elementwise product of two likelihood vectors
JointLikelihood(l1, l2) == [i \in 1..Len(l1) |-> PyMul(l1[i], l2[i])]

NoRes == [kind |-> "none", val |-> <<>>, divided |-> FALSE]

NoResults ==
    [s1 |-> NoRes, s12 |-> NoRes, s2 |-> NoRes, s21 |-> NoRes, joint |-> NoRes]

PostInit ==
    /\ prior = <<>> /\ lik1 = <<>> /\ lik2 = <<>>
    /\ res = NoResults
    /\ stage = "input"

\* the caller takes a prior and two likelihood vectors (the two data in
\* either order make the same five calls, so one order is taken)
PostObserve ==
    \E p \in Priors, n \in 0..MaxHypo :
        \E c1 \in LikChoices(n), c2 \in LikChoices(n) :
            /\ stage = "input"
            /\ Rank(c1, 1) <= Rank(c2, 1)
            /\ prior' = p
            /\ lik1' = LikVector(c1)
            /\ lik2' = LikVector(c2)
            /\ stage' = "s1"
            /\ UNCHANGED <<res, notPost>>

\* res.s1 = cal_disc_posterior(prior, lik1)
PostFirst ==
    /\ stage = "s1"
    /\ res' = [res EXCEPT !.s1 = cal_disc_posterior(prior, lik1)]
    /\ stage' = "s12"
    /\ UNCHANGED <<prior, lik1, lik2, notPost>>

\* res.s12 = cal_disc_posterior(res.s1, lik2)
PostFirstThenSecond ==
    /\ stage = "s12" /\ res.s1.kind = "ok"
    /\ res' = [res EXCEPT !.s12 = cal_disc_posterior(res.s1.val, lik2)]
    /\ stage' = "s2"
    /\ UNCHANGED <<prior, lik1, lik2, notPost>>

\* res.s2 = cal_disc_posterior(prior, lik2)
PostSecond ==
    /\ stage = "s2" /\ res.s12.kind = "ok"
    /\ res' = [res EXCEPT !.s2 = cal_disc_posterior(prior, lik2)]
    /\ stage' = "s21"
    /\ UNCHANGED <<prior, lik1, lik2, notPost>>

\* res.s21 = cal_disc_posterior(res.s2, lik1)
PostSecondThenFirst ==
    /\ stage = "s21" /\ res.s2.kind = "ok"
    /\ res' = [res EXCEPT !.s21 = cal_disc_posterior(res.s2.val, lik1)]
    /\ stage' = "joint"
    /\ UNCHANGED <<prior, lik1, lik2, notPost>>

\* res.joint = cal_disc_posterior(prior, lik1 * lik2)
PostJoint ==
    /\ stage = "joint" /\ res.s21.kind = "ok"
    /\ res' = [res EXCEPT !.joint =
                  cal_disc_posterior(prior, JointLikelihood(lik1, lik2))]
    /\ stage' = "complete"
    /\ UNCHANGED <<prior, lik1, lik2, notPost>>

Raised == \E f \in DOMAIN res : res[f].kind \notin {"none", "ok"}

\* the caller starts over, after the five calls or after an exception
PostRestart ==
    /\ stage = "complete" \/ Raised
    /\ prior' = <<>> /\ lik1' = <<>> /\ lik2' = <<>>
    /\ res' = NoResults
    /\ stage' = "input"
    /\ UNCHANGED notPost

(***************************************************************************)
(* Dictionaries.  A dictionary is the sequence of its <<key, value>>       *)
(* pairs in the order the keys were first inserted.  Iterating a           *)
(* dictionary of at most five small non-negative int keys visits them by   *)
(* hash slot, key mod DictSlots: CPython 2 hashes an int to itself and     *)
(* starts every dictionary with DictSlots slots.                           *)
(***************************************************************************)
DictSlots == 8

\* d[key] = value
DictSet(d, key, value) ==
    IF \E i \in 1..Len(d) : PyCmp(d[i][1], key) = 0
    THEN [i \in 1..Len(d) |->
             IF PyCmp(d[i][1], key) = 0 THEN <<d[i][1], value>> ELSE d[i]]
    ELSE Append(d, <<key, value>>)

\* dict(zip(values, probabilities))
RECURSIVE DictZip(_, _, _)
DictZip(d, values, probabilities) ==
    IF values = <<>> \/ probabilities = <<>> THEN d
    ELSE DictZip(DictSet(d, Head(values), Head(probabilities)),
                 Tail(values), Tail(probabilities))

Slot(key) == BVal(key.m) % DictSlots

\* for i in dist: the pairs in the order of iteration
Iteration(d) ==
    LET place(i) == 1 + Cardinality({j \in 1..Len(d) :
                                        Slot(d[j][1]) < Slot(d[i][1])})
    IN  [n \in 1..Len(d) |->
            d[CHOOSE i \in 1..Len(d) : place(i) = n]]

(***************************************************************************)
(* create_disc_distribution(values, probabilities, normalize)              *)
(***************************************************************************)
NoNumber == PyInt(0)

CreateFailed(kind) == [kind |-> kind, dict |-> <<>>]

\* for v, p in values, probabilities: the loop runs over the pair of the two
\* lists and unpacks each list into v, p, which needs a list of two items
UnpackLists(values, probabilities) ==
    IF Len(values) # 2 \/ Len(probabilities) # 2
    THEN CreateFailed("ValueError")
    ELSE [kind |-> "ok",
          dict |-> DictSet(DictSet(<<>>, values[1], values[2]),
                           probabilities[1], probabilities[2])]

create_disc_distribution(values, probabilities, normalize) ==
    IF Len(values) # Len(probabilities)
    THEN CreateFailed("AssertionError")
    ELSE IF \E i \in 1..Len(probabilities) :
                PyCmp(probabilities[i], PyInt(0)) < 0
    THEN CreateFailed("AssertionError")
    ELSE IF ~(~normalize /\ PyCmp(PySum(probabilities), PyInt(1)) = 0)
    THEN CreateFailed("AssertionError")
    ELSE IF normalize
    THEN UnpackLists(values,
                     [i \in 1..Len(probabilities) |->
                         PyDiv(probabilities[i], PySum(probabilities))])
    ELSE UnpackLists(values, probabilities)

(***************************************************************************)
(* cal_disc_percentile(dist, percentage)                                   *)
(***************************************************************************)
ReturnedNone == [kind |-> "None", val |-> NoNumber]

\* total += dist[i]; if total > percentage: return i
RECURSIVE Walk(_, _, _)
Walk(items, total, percentage) ==
    IF items = <<>> THEN ReturnedNone
    ELSE IF PyCmp(PyAdd(total, Head(items)[2]), percentage) > 0
    THEN [kind |-> "value", val |-> Head(items)[1]]
    ELSE Walk(Tail(items), PyAdd(total, Head(items)[2]), percentage)

cal_disc_percentile(d, percentage) == Walk(Iteration(d), FZero, percentage)

(***************************************************************************)
(* cal_disc_credible_interval(dist, level).  Its body reads the name       *)
(* significant_level, which is neither a parameter nor a local: the global *)
(* of that name is used when the importing program has bound one, and the  *)
(* read raises NameError otherwise.                                        *)
(***************************************************************************)
NoPair == <<ReturnedNone, ReturnedNone>>

cal_disc_credible_interval(d, level, global) ==
    IF global.bound
    THEN LET left  == PyDiv(PySub(PyInt(1), global.val), PyInt(2))
             right == PyAdd(global.val, left)
         IN  [kind |-> "ok",
              pair |-> <<cal_disc_percentile(d, left),
                         cal_disc_percentile(d, right)>>]
    ELSE [kind |-> "NameError", pair |-> NoPair]

(***************************************************************************)
(* The inputs of the distribution routines.                                *)
(***************************************************************************)
ProbValues == <<PyLit(2, 10), PyLit(5, 10), PyLit(3, 10), PyInt(1)>>

ProbLists(n) ==
    {[i \in 1..n |-> ProbValues[c[i]]] : c \in [1..n -> 1..Len(ProbValues)]}

\* the values 0, 1, ..., n - 1, ascending or descending
Ascending(n) == [i \in 1..n |-> PyInt(i - 1)]
Descending(n) == [i \in 1..n |-> PyInt(n - i)]

Percentages ==
    {PyLit(0, 1), PyLit(25, 100), PyLit(5, 10), PyLit(6, 10), PyLit(1, 1)}

Levels == {PyLit(5, 10), PyLit(9, 10), PyInt(1), PyLit(3, 2)}

Unbound == [bound |-> FALSE, val |-> NoNumber]

NoDCall ==
    [op |-> "none", arg |-> NoNumber, kind |-> "none", val |-> NoNumber,
     pair |-> NoPair]

DiscInit ==
    /\ dist = <<>>
    /\ dcall = NoDCall
    /\ significant_level = Unbound

\* dist = dict(zip(values, probabilities)), once, before the calls on dist
DiscMakeDict ==
    \E n \in 0..MaxLen :
        \E values \in {Ascending(n), Descending(n)}, probs \in ProbLists(n) :
            /\ dcall.op = "none"
            /\ dist' = DictZip(<<>>, values, probs)
            /\ dcall' = [NoDCall EXCEPT !.op = "dict"]
            /\ UNCHANGED <<significant_level, notDisc>>

\* cal_disc_percentile(dist, percentage)
DiscPercentile ==
    \E percentage \in Percentages :
        /\ dcall.op = "dict"
        /\ dcall' = [op |-> "percentile", arg |-> percentage,
                     kind |-> cal_disc_percentile(dist, percentage).kind,
                     val |-> cal_disc_percentile(dist, percentage).val,
                     pair |-> NoPair]
        /\ UNCHANGED <<dist, significant_level, notDisc>>

\* cal_disc_credible_interval(dist, level)
DiscInterval ==
    \E level \in Levels :
        LET r == cal_disc_credible_interval(dist, level, significant_level)
        IN  /\ dcall.op = "dict"
            /\ dcall' = [op |-> "interval", arg |-> level, kind |-> r.kind,
                         val |-> NoNumber, pair |-> r.pair]
            /\ UNCHANGED <<dist, significant_level, notDisc>>

\* the caller takes the result and is ready for its next call on dist
DiscReturn ==
    /\ dcall.op \in {"percentile", "interval"}
    /\ dcall' = [NoDCall EXCEPT !.op = "dict"]
    /\ UNCHANGED <<dist, significant_level, notDisc>>

\* the importing program binds the module's global significant_level
DiscBindGlobal ==
    \E v \in {PyLit(5, 10), PyLit(9, 10)} :
        /\ significant_level' = [bound |-> TRUE, val |-> v]
        /\ UNCHANGED <<dist, dcall, notDisc>>

NoCreate == [kind |-> "none", dict |-> <<>>]

CreateInit ==
    /\ \E n \in 0..MaxLen, m \in 0..MaxLen, normalize \in BOOLEAN :
           \E probs \in ProbLists(m) :
               cargs = [values |-> Ascending(n), probabilities |-> probs,
                        normalize |-> normalize]
    /\ cres = NoCreate

\* create_disc_distribution(values, probabilities, normalize)
CreateCall ==
    /\ cres = NoCreate
    /\ cres' = create_disc_distribution(cargs.values, cargs.probabilities,
                                        cargs.normalize)
    /\ UNCHANGED <<cargs, notCreate>>

(***************************************************************************)
(* Specifications.  Each fixes the variables of the other components.      *)
(***************************************************************************)
BetaIdle ==
    /\ heap = <<>> /\ beta_dist = 0 /\ post_beta = 0
    /\ bcall = NoCall /\ bhist = NoHist

ConcIdle ==
    /\ shared = NoDict /\ shared0 = NoDict
    /\ batch = <<>> /\ pc = <<>> /\ idx = <<>> /\ reg = <<>>
    /\ overlapped = FALSE

PostIdle ==
    /\ prior = <<>> /\ lik1 = <<>> /\ lik2 = <<>>
    /\ res = NoResults /\ stage = "idle"

DiscIdle == dist = <<>> /\ dcall = NoDCall /\ significant_level = Unbound

CreateIdle == cargs = <<>> /\ cres = NoCreate

InitBeta == BetaInit /\ ConcIdle /\ PostIdle /\ DiscIdle /\ CreateIdle

NextBeta == BetaCreate \/ BetaUpdate \/ BetaMean

SpecBeta == InitBeta /\ [][NextBeta]_vars

InitConc == ConcInit /\ BetaIdle /\ PostIdle /\ DiscIdle /\ CreateIdle

NextConc ==
    \E t \in Threads : ConcCall(t) \/ ConcFor(t) \/ ConcRead(t) \/ ConcWrite(t)

SpecConc == InitConc /\ [][NextConc]_vars

InitPost == PostInit /\ BetaIdle /\ ConcIdle /\ DiscIdle /\ CreateIdle

NextPost ==
    \/ PostObserve
    \/ PostFirst
    \/ PostFirstThenSecond
    \/ PostSecond
    \/ PostSecondThenFirst
    \/ PostJoint
    \/ PostRestart

SpecPost == InitPost /\ [][NextPost]_vars

InitDisc == DiscInit /\ BetaIdle /\ ConcIdle /\ PostIdle /\ CreateIdle

NextDisc ==
    \/ DiscMakeDict
    \/ DiscPercentile
    \/ DiscInterval
    \/ DiscReturn
    \/ DiscBindGlobal

SpecDisc == InitDisc /\ [][NextDisc]_vars

InitCreate == CreateInit /\ BetaIdle /\ ConcIdle /\ PostIdle /\ DiscIdle

NextCreate == CreateCall

SpecCreate == InitCreate /\ [][NextCreate]_vars

(***************************************************************************)
(* Claims about the Beta-Binomial routines (SpecBeta, SpecConc).           *)
(***************************************************************************)
\* the dictionary beta_dist refers to was created by create(1, 1) and has
\* been fed binary outcomes only
FromUniform ==
    /\ beta_dist # 0
    /\ bhist.a0 = 1 /\ bhist.b0 = 1
    /\ bhist.others = 0

\* C1: a model created with create(1, 1) and updated with binary outcomes
\* holding n ones and m zeros has alpha = 1 + n and beta = 1 + m, and its
\* mean is the float (1 + n) / (2 + n + m); outcomes [1,1,0] give alpha = 3,
\* beta = 2 and mean 0.6.
C1_PosteriorCounts ==
    FromUniform =>
        /\ heap[beta_dist].alpha = 1 + bhist.ones
        /\ heap[beta_dist].beta = 1 + bhist.zeros
        /\ bcall.op = "mean" =>
               /\ bcall.mean.kind = "ok"
               /\ ~bcall.mean.neg
               /\ bcall.mean.val
                      = PyLit(1 + bhist.ones, 2 + bhist.ones + bhist.zeros)
        /\ (bcall.op = "mean" /\ bhist.ones = 2 /\ bhist.zeros = 1) =>
               /\ heap[beta_dist] = [alpha |-> 3, beta |-> 2]
               /\ bcall.mean.val = PyLit(6, 10)

\* C1's case: create(1, 1), two successes and a failure, then the mean
C1_Witness ==
    /\ FromUniform
    /\ bhist.ones = 2 /\ bhist.zeros = 1
    /\ bcall.op = "mean"
    /\ bcall.mean.val = PyLit(6, 10)

\* C2: an update whose data holds a value that is neither 0 nor 1 fails
\* with InvalidOutcomeError and leaves alpha and beta as they were.
C2_AllOrNothing ==
    (bcall.op = "update" /\ bcall.bad) =>
        /\ bcall.raised = "InvalidOutcomeError"
        /\ heap[beta_dist] = bcall.pre

\* C3: an update returns a new model and leaves the model it was given
\* unchanged: the caller's prior and the returned posterior are not aliases.
C3_ReturnsNewModel ==
    bcall.op = "update" =>
        /\ post_beta # beta_dist
        /\ heap[beta_dist] = bcall.pre

\* C4: every model that exists has alpha > 0 and beta > 0 (create rejects
\* the others, update preserves it).
C4_ParametersPositive ==
    \A i \in DOMAIN heap : heap[i].alpha > 0 /\ heap[i].beta > 0

Finished == \A t \in Threads : pc[t] = "done"

Successes == Count(batch[1], 1) + Count(batch[2], 1)

Failures == Count(batch[1], 0) + Count(batch[2], 0)

\* C10: when the two updates of a shared model ran one after the other
\* (neither started while the other was running), the final model has
\* alpha = initial alpha + the successes of both batches and beta = initial
\* beta + the failures of both batches: an increment is missing only after
\* the updates interleaved.
C10_SerializedUpdatesKept ==
    (Finished /\ ~overlapped) =>
        /\ shared.alpha = shared0.alpha + Successes
        /\ shared.beta = shared0.beta + Failures

\* C10's case: two non-empty batches, applied one after the other
C10_Witness ==
    /\ Finished /\ ~overlapped
    /\ batch[1] # <<>> /\ batch[2] # <<>>
    /\ Successes > 0 /\ Failures > 0

\* an interleaving that loses an increment is reachable
C10_LostUpdateWhenInterleaved ==
    /\ Finished /\ overlapped
    /\ shared.alpha + shared.beta
           < shared0.alpha + shared0.beta + Successes + Failures

(***************************************************************************)
(* Claims about cal_disc_posterior (SpecPost).                             *)
(***************************************************************************)
\* the same numbers, place by place
SameNumbers(a, b) ==
    /\ Len(a) = Len(b)
    /\ \A i \in 1..Len(a) : PyCmp(a[i], b[i]) = 0

\* |a - b| <= 10^-9, for numbers below 2^53
Near(a, b) ==
    LET x  == ToFloat(a)
        y  == ToFloat(b)
        e  == Min(x.e, y.e)
        xm == BShl(x.m, x.e - e)
        ym == BShl(y.m, y.e - e)
        d  == IF BCmp(xm, ym) >= 0 THEN BSub(xm, ym) ELSE BSub(ym, xm)
    IN  BCmp(BMul(d, BNat(10^9)), BShl(<<1>>, -e)) <= 0

\* the same numbers up to 10^-9, place by place
NearNumbers(a, b) ==
    /\ Len(a) = Len(b)
    /\ \A i \in 1..Len(a) : Near(a[i], b[i])

\* C5 as stated: when every step has non-zero evidence, updating with lik1
\* and then lik2 equals updating once with their elementwise product, and
\* equals updating with lik2 and then lik1.
C5_SequentialEqualsJoint ==
    stage = "complete" =>
        /\ SameNumbers(res.s12.val, res.joint.val)
        /\ SameNumbers(res.s12.val, res.s21.val)

\* C5 as amended: the three results agree up to floating-point rounding,
\* each entry within 10^-9 of the others.
C5_SequentialNearJoint ==
    stage = "complete" =>
        /\ NearNumbers(res.s12.val, res.joint.val)
        /\ NearNumbers(res.s12.val, res.s21.val)
        /\ NearNumbers(res.s21.val, res.joint.val)

\* C5's case: two different data, all five calls returned, and the
\* sequential and joint results differ in their last bits
C5_Witness ==
    /\ stage = "complete"
    /\ lik1 # lik2
    /\ Len(prior) = 2
    /\ ~SameNumbers(res.s12.val, res.joint.val)

\* the evidence of the first call, sum over i of prior[i] * lik1[i], is 0
ZeroEvidence ==
    /\ Len(prior) = Len(lik1)
    /\ IsZero(PySum(Products(prior, lik1)))

\* C6: posterior(prior, likelihood) fails when the evidence is 0, empty
\* inputs included, without dividing by the zero sum, and fails when the
\* lengths differ; in neither case is a posterior returned.
C6_ZeroEvidenceAndShapeRejected ==
    res.s1.kind # "none" =>
        /\ ZeroEvidence => (res.s1.kind # "ok" /\ ~res.s1.divided)
        /\ Len(prior) # Len(lik1) => res.s1.kind # "ok"

(***************************************************************************)
(* create_disc_distribution                                                *)
(***************************************************************************)
SamePairs(d, e) ==
    /\ Len(d) = Len(e)
    /\ \A i \in 1..Len(d) :
           PyCmp(d[i][1], e[i][1]) = 0 /\ PyCmp(d[i][2], e[i][2]) = 0

Masses(d) == [i \in 1..Len(d) |-> d[i][2]]

NonNegative(q) == \A i \in 1..Len(q) : PyCmp(q[i], PyInt(0)) >= 0

\* the call was given well-formed lists: equal lengths, no negative entry
WellFormed ==
    /\ Len(cargs.values) = Len(cargs.probabilities)
    /\ NonNegative(cargs.probabilities)

\* C7: with normalize, non-negative probabilities of positive sum are
\* stored divided by their sum, each with its value in input order; without
\* normalize the call succeeds exactly when the probabilities sum to 1; in
\* both modes the stored probabilities sum to 1.
C7_StoredProbabilitiesSumToOne ==
    cres.kind # "none" =>
        LET sp == PySum(cargs.probabilities)
            scaled == [i \in 1..Len(cargs.probabilities) |->
                          PyDiv(ToFloat(cargs.probabilities[i]), sp)]
        IN  /\ (WellFormed /\ cargs.normalize /\ PyCmp(sp, PyInt(0)) > 0) =>
                   /\ cres.kind = "ok"
                   /\ SamePairs(cres.dict, DictZip(<<>>, cargs.values, scaled))
            /\ (WellFormed /\ ~cargs.normalize) =>
                   (cres.kind = "ok" <=> PyCmp(sp, PyInt(1)) = 0)
            /\ cres.kind = "ok" => Near(PySum(Masses(cres.dict)), PyInt(1))

(***************************************************************************)
(* cal_disc_percentile                                                     *)
(***************************************************************************)
\* the mass of the first n pairs of d, in the order they were stored
CumMass(d, n) == SumFrom(FZero, [i \in 1..n |-> d[i][2]])

Exceeding(d, percentage) ==
    {n \in 1..Len(d) : PyCmp(CumMass(d, n), percentage) > 0}

FirstExceeding(d, percentage) ==
    CHOOSE n \in Exceeding(d, percentage) :
        \A m \in Exceeding(d, percentage) : n <= m

\* values [0, 1, 2] with masses [0.2, 0.5, 0.3]
ExampleDist ==
    DictZip(<<>>, Ascending(3), <<PyLit(2, 10), PyLit(5, 10), PyLit(3, 10)>>)

\* C8: percentile(dist, p) returns the first value, in stored order, whose
\* cumulative mass strictly exceeds p; on values [0,1,2] with masses
\* [0.2,0.5,0.3] it returns 1 at 0.25 and 2 at 0.6; when no cumulative mass
\* exceeds p it returns the last value or raises, never a missing result.
C8_PercentileFirstExceeding ==
    dcall.op = "percentile" =>
        /\ Exceeding(dist, dcall.arg) # {} =>
               /\ dcall.kind = "value"
               /\ PyCmp(dcall.val,
                        dist[FirstExceeding(dist, dcall.arg)][1]) = 0
        /\ (dist = ExampleDist /\ PyCmp(dcall.arg, PyLit(25, 100)) = 0) =>
               (dcall.kind = "value" /\ PyCmp(dcall.val, PyInt(1)) = 0)
        /\ (dist = ExampleDist /\ PyCmp(dcall.arg, PyLit(6, 10)) = 0) =>
               (dcall.kind = "value" /\ PyCmp(dcall.val, PyInt(2)) = 0)
        /\ Exceeding(dist, dcall.arg) = {} =>
               \/ dcall.kind \notin {"value", "None"}
               \/ /\ dcall.kind = "value"
                  /\ dist # <<>>
                  /\ PyCmp(dcall.val, dist[Len(dist)][1]) = 0

(***************************************************************************)
(* cal_disc_credible_interval                                              *)
(***************************************************************************)
InRange(level) == PyCmp(level, PyInt(0)) > 0 /\ PyCmp(level, PyInt(1)) < 0

\* C9: credible_interval(dist, level) depends on its level argument alone:
\* for a level in (0, 1) it returns the percentiles at (1 - level) / 2 and
\* at level + (1 - level) / 2, and for a level out of range it fails.
C9_IntervalFromExplicitLevel ==
    dcall.op = "interval" =>
        LET left  == PyDiv(PySub(PyInt(1), dcall.arg), PyInt(2))
            right == PyAdd(dcall.arg, left)
        IN  IF InRange(dcall.arg)
            THEN /\ dcall.kind = "ok"
                 /\ dcall.pair = <<cal_disc_percentile(dist, left),
                                   cal_disc_percentile(dist, right)>>
            ELSE dcall.kind # "ok"

====
